---- MODULE Spec2Model ----
(***************************************************************************)
(* The presence-heartbeat engine of lib/srv/heartbeatv2.go: the worker     *)
(* HeartbeatV2.run / runWithSender, the ssh server driver                  *)
(* sshServerHeartbeatV2 with its asynchronous cloud-metadata fetch, the    *)
(* ForceSend callers, and the environment the worker multiplexes over (the *)
(* three intervals, the downstream handle's sender, the close context).    *)
(*                                                                         *)
(* Time is kept by what the program can tell of it: an interval is armed   *)
(* or has a tick ready on its channel, fallbackBackoffTime is ahead of     *)
(* time.Now() or past, a ForceSend call's timeoutC has fired or not. Each  *)
(* of these comes due by a step of its own, at any moment.                 *)
(***************************************************************************)
EXTENDS Integers, Sequences, FiniteSets, TLC

\* ------------------------------------------------------------ bounds
\* number of ForceSend calls made over a run
MaxForceSend == 1
\* distinct values cfg.GetServer() can return
NumSpecs == 2
\* distinct values the metadata getter can return
NumMeta == 1

Specs == 1..NumSpecs
Metas == 1..NumMeta
Waiters == 1..MaxForceSend

VARIABLES
    cfg,                 \* the SSHServerHeartbeatConfig given to the constructor,
                         \* then the configuration the engine keeps
    pc,                  \* position of the worker goroutine (HeartbeatV2.run):
                         \* "config" and "no engine" before and without an engine
    shouldAnnounce,      \* HeartbeatV2.shouldAnnounce
    fallbackBackoffTime, \* HeartbeatV2.fallbackBackoffTime: "past" or "ahead" of now
    announceWaiters,     \* HeartbeatV2.announceWaiters
    announce,            \* HeartbeatV2.announce: "nil", "armed", "ready", "stopped"
    poll,                \* HeartbeatV2.poll
    degradedCheck,       \* HeartbeatV2.degradedCheck
    sender,              \* runWithSender's sender: "none", "live", "done"
    log,                 \* what the worker's last step did, in program order
    handle,              \* the downstream handle has a sender to yield
    cancelled,           \* h.closeContext is done
    hasAnnouncer,        \* sshServerHeartbeatV2.announcer != nil
    server,              \* what cfg.GetServer() returns now
    prev,                \* sshServerHeartbeatV2.prev (the object's contents)
    metadataPtr,         \* the atomic metadataPtr: 0 is nil
    fetchPrev,           \* a fetch goroutine holding the object h.prev is in flight
    fetchOther,          \* fetch goroutines in flight holding other objects:
                         \* "none", "one", "many"
    fsPc,                \* each ForceSend call's position
    fsTimeout,           \* each ForceSend call's timeoutC: "off", "running", "fired"
    closed,              \* the waiter channels that have been closed
    within,              \* history: the ForceSend calls during which, before their
                         \* timeoutC fired, an announce succeeded
    since                \* history: what has happened since the last successful
                         \* announce, {"no announce"} before the first one

engineVars == <<shouldAnnounce, fallbackBackoffTime, announceWaiters, announce,
                poll, degradedCheck>>
driverVars == <<prev, fetchPrev, fetchOther>>
envVars == <<handle, cancelled, hasAnnouncer, cfg, server, metadataPtr>>
fsVars == <<fsPc, fsTimeout, closed, within>>
vars == <<pc, sender, log, engineVars, driverVars, envVars, fsVars, since>>

\* ------------------------------------------------------------ helpers

Range(s) == {s[i] : i \in DOMAIN s}

\* one entry of the worker's step log
E(op, arg) == <<op, arg>>

Has(l, e) == \E i \in DOMAIN l : l[i] = e

Count(l, e) == Cardinality({i \in DOMAIN l : l[i] = e})

\* time.Now().After(t)
NowAfter(t) == t = "past"

\* a deadline that has passed when it is set
BackoffDeadlineNow == "past"

\* time.Now().Add(utils.SeventhJitter(h.fallbackBackoff))
BackoffDeadline == "ahead"

\* a server snapshot: the spec and the cloud metadata stamped on it
NoServer == [spec |-> 0, meta |-> 0]

\* services.CompareServers
CompareServers(a, b) == IF a.spec = b.spec /\ a.meta = b.meta THEN "Equal" ELSE "Different"

\* what inner.getServer returns: cfg.GetServer() with the cached metadata set
GetServer == [spec |-> server, meta |-> metadataPtr]

\* inner.getServer starts a fetch goroutine when nothing is cached
SpawnsFetch == metadataPtr = 0

\* since, after something has happened
Since(what) == IF "no announce" \in since THEN since ELSE since \cup {what}

\* ------------------------------------------------------------ intervals
\* interval.New: armed, the first tick yet to come
NewInterval == "armed"

\* the interval once Next() has delivered its tick
NextTick == "armed"

\* Interval.Reset(): a pending tick is dropped and the interval armed anew
ResetInterval == "armed"

\* some more fetch goroutines in flight
MoreFetches(n, k) ==
    IF k = 0 THEN n
    ELSE IF n = "none" /\ k = 1 THEN "one"
    ELSE "many"

\* one fetch goroutine fewer in flight
FewerFetches(n) == IF n = "one" THEN {"none"} ELSE {"one", "many"}

\* ------------------------------------------------------------ the ssh driver

\* a Poll that reports no change while nothing has been announced
PollOfSetPrev(changed) ==
    /\ changed = (prev # NoServer /\ CompareServers(GetServer, prev) = "Different")
    /\ fetchOther' = MoreFetches(fetchOther, IF prev # NoServer /\ SpawnsFetch THEN 1 ELSE 0)
    /\ UNCHANGED <<prev, fetchPrev>>

\* sshServerHeartbeatV2.Poll
Poll(changed) ==
    /\ changed = (IF prev = NoServer THEN TRUE
                  ELSE CompareServers(GetServer, prev) = "Different")
    /\ fetchOther' = MoreFetches(fetchOther, IF prev # NoServer /\ SpawnsFetch THEN 1 ELSE 0)
    /\ UNCHANGED <<prev, fetchPrev>>

\* sshServerHeartbeatV2.SupportsFallback
SupportsFallback == hasAnnouncer

\* a driver that never records what it sent
PrevNeverSet(err, srv) == prev

\* h.prev after a send of srv that returned err
PrevAfterSend(err, srv) == IF err THEN prev ELSE srv

\* sshServerHeartbeatV2.FallbackAnnounce
FallbackAnnounce(ok) ==
    IF ~hasAnnouncer
    THEN ok = FALSE /\ UNCHANGED driverVars
    ELSE \E err \in BOOLEAN :
           /\ ok = ~err
           /\ prev' = PrevAfterSend(err, GetServer)
           /\ fetchPrev' = IF err THEN fetchPrev ELSE SpawnsFetch
           /\ fetchOther' = MoreFetches(fetchOther,
                                (IF err /\ SpawnsFetch THEN 1 ELSE 0)
                                + (IF ~err /\ fetchPrev THEN 1 ELSE 0))

\* the results sender.Send can give
SendErrs == IF sender = "done" THEN {TRUE} ELSE BOOLEAN

\* sshServerHeartbeatV2.Announce: getServer is called twice, once for the
\* snapshot kept as prev and once for the message's payload
Announce(ok) ==
    \E err \in SendErrs :
      /\ ok = ~err
      /\ prev' = PrevAfterSend(err, GetServer)
      /\ fetchPrev' = IF err THEN fetchPrev ELSE SpawnsFetch
      /\ fetchOther' = MoreFetches(fetchOther,
                           (IF SpawnsFetch THEN 1 ELSE 0)
                           + (IF err /\ SpawnsFetch THEN 1 ELSE 0)
                           + (IF ~err /\ fetchPrev THEN 1 ELSE 0))

\* a fetch goroutine that stores what it got whatever is cached
FetchEndsStores(got, holdsPrev) ==
    /\ IF holdsPrev
       THEN fetchPrev /\ fetchPrev' = FALSE /\ fetchOther' = fetchOther
       ELSE /\ fetchOther # "none"
            /\ fetchOther' \in FewerFetches(fetchOther)
            /\ fetchPrev' = fetchPrev
    /\ prev' = IF holdsPrev /\ got # 0 THEN [prev EXCEPT !.meta = got] ELSE prev
    /\ metadataPtr' = IF got # 0 THEN got ELSE metadataPtr
    /\ since' = IF prev' # prev \/ metadataPtr' # metadataPtr
                THEN Since("metadata") ELSE since
    /\ UNCHANGED <<pc, sender, log, engineVars, handle, cancelled, hasAnnouncer, cfg,
                   server, fsVars>>

\* a fetch goroutine spawned by getServer ends: got is 0 when getMetadata
\* failed or returned no cloud metadata, else the metadata it returned
FetchEnds(got, holdsPrev) ==
    /\ IF holdsPrev
       THEN fetchPrev /\ fetchPrev' = FALSE /\ fetchOther' = fetchOther
       ELSE /\ fetchOther # "none"
            /\ fetchOther' \in FewerFetches(fetchOther)
            /\ fetchPrev' = fetchPrev
    /\ prev' = IF holdsPrev /\ got # 0 THEN [prev EXCEPT !.meta = got] ELSE prev
    /\ metadataPtr' = IF got # 0 /\ metadataPtr = 0 THEN got ELSE metadataPtr
    /\ since' = IF prev' # prev \/ metadataPtr' # metadataPtr
                THEN Since("metadata") ELSE since
    /\ UNCHANGED <<pc, sender, log, engineVars, handle, cancelled, hasAnnouncer, cfg,
                   server, fsVars>>

\* ------------------------------------------------------------ the engine

\* HeartbeatV2.onHeartbeat(err)
OnHeartbeat(err) ==
    <<E("event", IF err = "nil" THEN "on-heartbeat-ok" ELSE "on-heartbeat-err"),
      E("onHeartbeat", err)>>

\* an engine that clears the latch after any send attempt
ShouldAnnounceCleared(ok) == FALSE

\* shouldAnnounce after a send attempt that returned ok
ShouldAnnounceAfterSend(ok) == IF ok THEN FALSE ELSE shouldAnnounce

\* an engine that closes the waiters after any send attempt
WaitersClosedByAnySend(ok) == Range(announceWaiters)

\* an engine that closes only the waiters whose ForceSend call is waiting
WaitersClosedIfWaiting(ok) ==
    IF ok THEN {w \in Range(announceWaiters) : fsPc[w] = "waiting"} ELSE {}

\* the waiters closed by a send attempt that returned ok
WaitersClosedBySend(ok) == IF ok THEN Range(announceWaiters) ELSE {}

\* the log of a failed send that reports no heartbeat
SendErrLogSilent(call, ev, err) == <<E("call", call), E("event", ev)>>

\* the log of a failed send that reports the wrong error
SendErrLogNoSender(call, ev, err) ==
    <<E("call", call), E("event", ev)>> \o OnHeartbeat("noSenderErr")

\* an engine that keeps the waiters it has closed
WaitersKeptAfterSend(ok) == announceWaiters

\* announceWaiters after a send attempt that returned ok
WaitersAfterSend(ok) == IF ok THEN <<>> ELSE announceWaiters

\* an engine that leaves the degraded check as it is after a successful send
AfterSendNoDegradedReset(ok) ==
    /\ announce' = (IF ok THEN ResetInterval ELSE announce)
    /\ shouldAnnounce' = ShouldAnnounceAfterSend(ok)
    /\ closed' = closed \cup WaitersClosedBySend(ok)
    /\ announceWaiters' = WaitersAfterSend(ok)
    /\ within' = (IF ok THEN within \cup {w \in Waiters : fsTimeout[w] = "running"}
                  ELSE within)
    /\ since' = (IF ok THEN {} ELSE since)
    /\ UNCHANGED <<poll, degradedCheck, fsPc, fsTimeout>>

\* an engine that resets the announce interval after any send attempt
AfterSendAlwaysResets(ok) ==
    /\ announce' = ResetInterval
    /\ degradedCheck' = (IF ok THEN ResetInterval ELSE degradedCheck)
    /\ shouldAnnounce' = ShouldAnnounceAfterSend(ok)
    /\ closed' = closed \cup WaitersClosedBySend(ok)
    /\ announceWaiters' = WaitersAfterSend(ok)
    /\ within' = (IF ok THEN within \cup {w \in Waiters : fsTimeout[w] = "running"}
                  ELSE within)
    /\ since' = (IF ok THEN {} ELSE since)
    /\ UNCHANGED <<poll, fsPc, fsTimeout>>

\* what follows a send attempt in either loop, but for the log and the backoff
AfterSend(ok) ==
    /\ announce' = (IF ok THEN ResetInterval ELSE announce)
    /\ degradedCheck' = (IF ok THEN ResetInterval ELSE degradedCheck)
    /\ shouldAnnounce' = ShouldAnnounceAfterSend(ok)
    /\ closed' = closed \cup WaitersClosedBySend(ok)
    /\ announceWaiters' = WaitersAfterSend(ok)
    /\ within' = (IF ok THEN within \cup {w \in Waiters : fsTimeout[w] = "running"}
                  ELSE within)
    /\ since' = (IF ok THEN {} ELSE since)
    /\ UNCHANGED <<poll, fsPc, fsTimeout>>

\* a success block that clears the latch last of all
SendOkLogLatchLast(call, ev) ==
    <<E("call", call), E("event", ev), E("reset", "announce"),
      E("reset", "degradedCheck")>>
    \o OnHeartbeat("nil")
    \o <<E("close", "announceWaiters"), E("set", "shouldAnnounce=false")>>

\* a success block that closes the waiters before it reports the heartbeat
SendOkLogClosesFirst(call, ev) ==
    <<E("call", call), E("event", ev), E("reset", "announce"),
      E("reset", "degradedCheck"), E("set", "shouldAnnounce=false"),
      E("close", "announceWaiters")>>
    \o OnHeartbeat("nil")

SendOkLog(call, ev) ==
    <<E("call", call), E("event", ev), E("reset", "announce"),
      E("reset", "degradedCheck"), E("set", "shouldAnnounce=false")>>
    \o OnHeartbeat("nil") \o <<E("close", "announceWaiters")>>

SendErrLog(call, ev, err) ==
    <<E("call", call), E("event", ev)>>
    \o (IF call = "FallbackAnnounce" THEN <<E("set", "fallbackBackoffTime")>> ELSE <<>>)
    \o OnHeartbeat(err)

\* an engine that does not back off
FallbackDueAtOnce == SupportsFallback

\* an engine that attempts the fallback whatever the driver supports
FallbackDueUnsupported == NowAfter(fallbackBackoffTime)

\* the fallback is attempted: the driver has one and the backoff is over
FallbackDue == SupportsFallback /\ NowAfter(fallbackBackoffTime)

\* run(), the top of the outer loop
Run ==
    /\ pc = "run"
    /\ pc' = "select"
    /\ UNCHANGED <<sender, envVars>>
    /\ IF shouldAnnounce /\ FallbackDue
       THEN \E ok \in BOOLEAN :
              /\ FallbackAnnounce(ok)
              /\ AfterSend(ok)
              /\ fallbackBackoffTime' =
                     (IF ok THEN fallbackBackoffTime ELSE BackoffDeadline)
              /\ log' = IF ok THEN SendOkLog("FallbackAnnounce", "fallback-ok")
                        ELSE SendErrLog("FallbackAnnounce", "fallback-err", "fallbackFailed")
       ELSE /\ log' = IF ~shouldAnnounce THEN <<>>
                      ELSE IF SupportsFallback THEN <<E("event", "hb-fallback-backoff")>>
                      ELSE <<E("event", "no-fallback")>>
            /\ UNCHANGED <<engineVars, driverVars, fsVars, since>>

\* a with-sender loop that waits for the fallback backoff to end
RunWithSenderBackoff ==
    /\ pc = "runWithSender"
    /\ pc' = "selectWithSender"
    /\ UNCHANGED <<sender, envVars>>
    /\ IF shouldAnnounce /\ NowAfter(fallbackBackoffTime)
       THEN \E ok \in BOOLEAN :
              /\ Announce(ok)
              /\ AfterSend(ok)
              /\ UNCHANGED fallbackBackoffTime
              /\ log' = IF ok THEN SendOkLog("Announce", "announce-ok")
                        ELSE SendErrLog("Announce", "announce-err", "announceFailed")
       ELSE /\ log' = IF shouldAnnounce THEN <<E("event", "hb-fallback-backoff")>>
                      ELSE <<>>
            /\ UNCHANGED <<engineVars, driverVars, fsVars, since>>

\* runWithSender(), the top of the inner loop
RunWithSender ==
    /\ pc = "runWithSender"
    /\ pc' = "selectWithSender"
    /\ UNCHANGED <<sender, envVars>>
    /\ IF shouldAnnounce
       THEN \E ok \in BOOLEAN :
              /\ Announce(ok)
              /\ AfterSend(ok)
              /\ UNCHANGED fallbackBackoffTime
              /\ log' = IF ok THEN SendOkLog("Announce", "announce-ok")
                        ELSE SendErrLog("Announce", "announce-err", "announceFailed")
       ELSE /\ log' = <<>>
            /\ UNCHANGED <<engineVars, driverVars, fsVars, since>>

\* the preamble of the with-sender loop calls Announce while the service's
\* spec changes to s: the first getServer call of Announce, whose result is
\* kept for prev, is made before the change, and the second, whose result is
\* the message's payload, after it
RunWithSenderSpecChanges(s) ==
    /\ pc = "runWithSender"
    /\ shouldAnnounce
    /\ s # server
    /\ pc' = "selectWithSender"
    /\ server' = s
    /\ \E ok \in BOOLEAN :
         /\ Announce(ok)
         /\ announce' = (IF ok THEN ResetInterval ELSE announce)
         /\ degradedCheck' = (IF ok THEN ResetInterval ELSE degradedCheck)
         /\ shouldAnnounce' = ShouldAnnounceAfterSend(ok)
         /\ closed' = closed \cup WaitersClosedBySend(ok)
         /\ announceWaiters' = WaitersAfterSend(ok)
         /\ within' = (IF ok THEN within \cup {w \in Waiters : fsTimeout[w] = "running"}
                       ELSE within)
         /\ since' = (IF ok THEN {"spec"} ELSE Since("spec"))
         /\ log' = IF ok THEN SendOkLog("Announce", "announce-ok")
                   ELSE SendErrLog("Announce", "announce-err", "announceFailed")
    /\ UNCHANGED <<sender, fallbackBackoffTime, poll, handle, cancelled,
                   hasAnnouncer, cfg, metadataPtr, fsPc, fsTimeout>>

\* a poll tick that sets the latch whatever Poll returns
PollTickAnnounces(next) ==
    /\ poll = "ready"
    /\ poll' = NextTick
    /\ pc' = next
    /\ \E changed \in BOOLEAN :
         /\ Poll(changed)
         /\ shouldAnnounce' = TRUE
         /\ log' = <<E("recv", "poll.Next"), E("call", "Poll"),
                     E("event", IF changed THEN "poll-diff" ELSE "poll-same"),
                     E("set", "shouldAnnounce=true")>>
    /\ UNCHANGED <<sender, fallbackBackoffTime, announceWaiters, announce,
                   degradedCheck, envVars, fsVars, since>>

\* the poll tick's handler, the same in both loops
PollTick(next) ==
    /\ poll = "ready"
    /\ poll' = NextTick
    /\ pc' = next
    /\ \E changed \in BOOLEAN :
         /\ Poll(changed)
         /\ shouldAnnounce' = (changed \/ shouldAnnounce)
         /\ log' = <<E("recv", "poll.Next"), E("call", "Poll"),
                     E("event", IF changed THEN "poll-diff" ELSE "poll-same")>>
                   \o (IF changed THEN <<E("set", "shouldAnnounce=true")>> ELSE <<>>)
    /\ UNCHANGED <<sender, fallbackBackoffTime, announceWaiters, announce,
                   degradedCheck, envVars, fsVars, since>>

\* an announce tick that re-arms the interval and leaves the latch as it is
AnnounceTickNoLatch(next) ==
    /\ announce = "ready"
    /\ announce' = NextTick
    /\ pc' = next
    /\ log' = <<E("recv", "announce.Next"), E("event", "hb-announce-interval")>>
    /\ since' = Since("announce tick")
    /\ UNCHANGED <<sender, shouldAnnounce, fallbackBackoffTime, announceWaiters, poll,
                   degradedCheck, driverVars, envVars, fsVars>>

\* the announce tick's handler, the same in both loops
AnnounceTick(next) ==
    /\ announce = "ready"
    /\ announce' = NextTick
    /\ pc' = next
    /\ shouldAnnounce' = TRUE
    /\ log' = <<E("recv", "announce.Next"), E("event", "hb-announce-interval"),
                E("set", "shouldAnnounce=true")>>
    /\ since' = Since("announce tick")
    /\ UNCHANGED <<sender, fallbackBackoffTime, announceWaiters, poll,
                   degradedCheck, driverVars, envVars, fsVars>>

\* a force-send that ends the fallback backoff
TestAnnounceEndsBackoff(w, next) ==
    /\ fsPc[w] = "sending"
    /\ fsPc' = [fsPc EXCEPT ![w] = "waiting"]
    /\ pc' = next
    /\ shouldAnnounce' = TRUE
    /\ announceWaiters' = Append(announceWaiters, w)
    /\ fallbackBackoffTime' = "past"
    /\ log' = <<E("recv", "testAnnounce"), E("set", "shouldAnnounce=true"),
                E("append", "announceWaiters")>>
    /\ since' = Since("force-send")
    /\ UNCHANGED <<sender, announce, poll, degradedCheck,
                   driverVars, envVars, fsTimeout, closed, within>>

\* a waiter is received from testAnnounce, the same in both loops: the
\* ForceSend call that offered it moves on to wait for it
TestAnnounce(w, next) ==
    /\ fsPc[w] = "sending"
    /\ fsPc' = [fsPc EXCEPT ![w] = "waiting"]
    /\ pc' = next
    /\ shouldAnnounce' = TRUE
    /\ announceWaiters' = Append(announceWaiters, w)
    /\ log' = <<E("recv", "testAnnounce"), E("set", "shouldAnnounce=true"),
                E("append", "announceWaiters")>>
    /\ since' = Since("force-send")
    /\ UNCHANGED <<sender, fallbackBackoffTime, announce, poll, degradedCheck,
                   driverVars, envVars, fsTimeout, closed, within>>

\* a degraded check that never reports
DegradedEmitsNever(changed) == FALSE

\* a degraded check that reports whatever the state
DegradedEmitsAlways(changed) == TRUE

\* a degraded check of the inner loop that reports whatever the state
DegradedClearsAlways(changed) == TRUE

\* a degraded check that does not look at what Poll returned
DegradedEmitsUnpolled(changed) == ~SupportsFallback \/ ~shouldAnnounce

\* the heartbeat error of a degraded check in the outer loop, given what Poll
\* returned (Poll is not called when the driver has no fallback)
DegradedEmits(changed) == ~SupportsFallback \/ (~changed /\ ~shouldAnnounce)

\* a degraded check of the inner loop that does not look at the latch
DegradedClearsUnlatched(changed) == ~changed

\* the degraded check of the inner loop clears the degraded state
DegradedClears(changed) == ~changed /\ ~shouldAnnounce

\* a runWithSender that emits poll-diff for the poll it makes on entry
SelectSenderEmits ==
    /\ pc = "select"
    /\ handle
    /\ sender' = "live"
    /\ pc' = "runWithSender"
    /\ \E changed \in BOOLEAN :
         /\ Poll(changed)
         /\ shouldAnnounce' = (changed \/ shouldAnnounce)
         /\ log' = <<E("recv", "handle.Sender"), E("call", "Poll")>>
                   \o (IF changed THEN <<E("event", "poll-diff"),
                                         E("set", "shouldAnnounce=true")>>
                       ELSE <<>>)
    /\ UNCHANGED <<fallbackBackoffTime, announceWaiters, announce, poll,
                   degradedCheck, envVars, fsVars, since>>

\* a runWithSender that sets the latch to what its entry poll returned
SelectSenderLatchFromPoll ==
    /\ pc = "select"
    /\ handle
    /\ sender' = "live"
    /\ pc' = "runWithSender"
    /\ \E changed \in BOOLEAN :
         /\ Poll(changed)
         /\ shouldAnnounce' = changed
         /\ log' = <<E("recv", "handle.Sender"), E("call", "Poll")>>
                   \o (IF changed THEN <<E("set", "shouldAnnounce=true")>> ELSE <<>>)
    /\ UNCHANGED <<fallbackBackoffTime, announceWaiters, announce, poll,
                   degradedCheck, envVars, fsVars, since>>

\* run(): a sender is received and runWithSender polls at once
SelectSender ==
    /\ pc = "select"
    /\ handle
    /\ sender' = "live"
    /\ pc' = "runWithSender"
    /\ \E changed \in BOOLEAN :
         /\ Poll(changed)
         /\ shouldAnnounce' = (changed \/ shouldAnnounce)
         /\ log' = <<E("recv", "handle.Sender"), E("call", "Poll")>>
                   \o (IF changed THEN <<E("set", "shouldAnnounce=true")>> ELSE <<>>)
    /\ UNCHANGED <<fallbackBackoffTime, announceWaiters, announce, poll,
                   degradedCheck, envVars, fsVars, since>>

SelectAnnounce == pc = "select" /\ AnnounceTick("run")

\* a no-sender select that has no case for the poll interval
SelectPollMissing == FALSE

SelectPoll == pc = "select" /\ PollTick("run")

SelectDegradedCheck ==
    /\ pc = "select"
    /\ degradedCheck = "ready"
    /\ degradedCheck' = NextTick
    /\ pc' = "run"
    /\ IF SupportsFallback
       THEN \E changed \in BOOLEAN :
              /\ Poll(changed)
              /\ log' = <<E("recv", "degradedCheck.Next"), E("call", "Poll")>>
                        \o (IF DegradedEmits(changed) THEN OnHeartbeat("noSenderErr")
                            ELSE <<>>)
       ELSE /\ log' = <<E("recv", "degradedCheck.Next")>>
                      \o (IF DegradedEmits(FALSE) THEN OnHeartbeat("noSenderErr")
                          ELSE <<>>)
            /\ UNCHANGED driverVars
    /\ UNCHANGED <<sender, shouldAnnounce, fallbackBackoffTime, announceWaiters,
                   announce, poll, envVars, fsVars, since>>

SelectTestAnnounce(w) == pc = "select" /\ TestAnnounce(w, "run")

\* a no-sender loop that goes on when it should return
SelectDoneSkipped ==
    /\ pc = "select"
    /\ cancelled
    /\ pc' = "run"
    /\ log' = <<E("recv", "closeContext.Done")>>
    /\ UNCHANGED <<sender, engineVars, driverVars, envVars, fsVars, since>>

\* run() returns: the deferred calls stop the intervals and emit hb-close
SelectDone ==
    /\ pc = "select"
    /\ cancelled
    /\ pc' = "returned"
    /\ announce' = "stopped" /\ poll' = "stopped" /\ degradedCheck' = "stopped"
    /\ log' = <<E("recv", "closeContext.Done"), E("event", "hb-close")>>
    /\ UNCHANGED <<sender, shouldAnnounce, fallbackBackoffTime, announceWaiters,
                   driverVars, envVars, fsVars, since>>

\* a with-sender loop that goes on when it should return
ReturnSkipped(why) ==
    /\ pc = "selectWithSender"
    /\ pc' = "runWithSender"
    /\ log' = <<E("recv", why)>>
    /\ UNCHANGED <<sender, engineVars, driverVars, envVars, fsVars, since>>

\* a run() that leaves the degraded check as it is when runWithSender returns
ReturnNoReset(why) ==
    /\ pc = "selectWithSender"
    /\ pc' = "run"
    /\ sender' = "none"
    /\ log' = <<E("recv", why)>>
    /\ UNCHANGED <<engineVars, driverVars, envVars, fsVars, since>>

\* a run() that holds on to the sender when runWithSender returns
ReturnKeepsSender(why) ==
    /\ pc = "selectWithSender"
    /\ pc' = "run"
    /\ degradedCheck' = ResetInterval
    /\ log' = <<E("recv", why), E("reset", "degradedCheck")>>
    /\ UNCHANGED <<sender, shouldAnnounce, fallbackBackoffTime, announceWaiters,
                   announce, poll, driverVars, envVars, fsVars, since>>

\* runWithSender returns to run(), which resets the degraded check and loops
Return(why) ==
    /\ pc = "selectWithSender"
    /\ pc' = "run"
    /\ sender' = "none"
    /\ degradedCheck' = ResetInterval
    /\ log' = <<E("recv", why), E("reset", "degradedCheck")>>
    /\ UNCHANGED <<shouldAnnounce, fallbackBackoffTime, announceWaiters, announce,
                   poll, driverVars, envVars, fsVars, since>>

WithSenderDone == sender = "done" /\ Return("sender.Done")

WithSenderAnnounce == pc = "selectWithSender" /\ AnnounceTick("runWithSender")

WithSenderPoll == pc = "selectWithSender" /\ PollTick("runWithSender")

WithSenderDegradedCheck ==
    /\ pc = "selectWithSender"
    /\ degradedCheck = "ready"
    /\ degradedCheck' = NextTick
    /\ pc' = "runWithSender"
    /\ \E changed \in BOOLEAN :
         /\ Poll(changed)
         /\ log' = <<E("recv", "degradedCheck.Next"), E("call", "Poll")>>
                   \o (IF DegradedClears(changed) THEN OnHeartbeat("nil") ELSE <<>>)
    /\ UNCHANGED <<sender, shouldAnnounce, fallbackBackoffTime, announceWaiters,
                   announce, poll, envVars, fsVars, since>>

WithSenderTestAnnounce(w) ==
    pc = "selectWithSender" /\ TestAnnounce(w, "runWithSender")

WithSenderCancelled == cancelled /\ Return("closeContext.Done")

\* run() starts: the intervals are created and hb-start is emitted
Start ==
    /\ pc = "new"
    /\ pc' = "run"
    /\ announce' = NewInterval /\ poll' = NewInterval /\ degradedCheck' = NewInterval
    /\ log' = <<E("event", "hb-start")>>
    /\ UNCHANGED <<sender, shouldAnnounce, fallbackBackoffTime, announceWaiters,
                   driverVars, envVars, fsVars, since>>

\* ------------------------------------------------------------ ForceSend

\* ForceSend(timeout) is called: a fresh waiter is offered on testAnnounce
ForceSend(w) ==
    /\ fsPc[w] = "idle"
    /\ \A v \in Waiters : v < w => fsPc[v] # "idle"
    /\ fsPc' = [fsPc EXCEPT ![w] = "sending"]
    /\ fsTimeout' = [fsTimeout EXCEPT ![w] = "running"]
    /\ UNCHANGED <<pc, sender, log, engineVars, driverVars, envVars, closed,
                   within, since>>

\* ForceSend returns from one of its two selects
ForceSendReturns(w, from, ready, result) ==
    /\ fsPc[w] = from
    /\ ready
    /\ fsPc' = [fsPc EXCEPT ![w] = result]
    /\ fsTimeout' = [fsTimeout EXCEPT ![w] = "off"]
    /\ UNCHANGED <<pc, sender, log, engineVars, driverVars, envVars, closed,
                   within, since>>

TimeoutTrigger(w) == ForceSendReturns(w, "sending", fsTimeout[w] = "fired", "timeout waiting to trigger announce")

TimeoutSuccess(w) == ForceSendReturns(w, "waiting", fsTimeout[w] = "fired", "timeout waiting for announce success")

ForceSendOk(w) == ForceSendReturns(w, "waiting", w \in closed, "nil")

\* ------------------------------------------------------------ the environment

\* the announce interval comes due
AnnounceDue ==
    /\ announce = "armed"
    /\ announce' = "ready"
    /\ UNCHANGED <<pc, sender, log, shouldAnnounce, fallbackBackoffTime,
                   announceWaiters, poll, degradedCheck, driverVars, envVars, fsVars,
                   since>>

\* the poll interval comes due
PollDue ==
    /\ poll = "armed"
    /\ poll' = "ready"
    /\ UNCHANGED <<pc, sender, log, shouldAnnounce, fallbackBackoffTime,
                   announceWaiters, announce, degradedCheck, driverVars, envVars, fsVars,
                   since>>

\* the degraded check interval comes due
DegradedCheckDue ==
    /\ degradedCheck = "armed"
    /\ degradedCheck' = "ready"
    /\ UNCHANGED <<pc, sender, log, shouldAnnounce, fallbackBackoffTime,
                   announceWaiters, announce, poll, driverVars, envVars, fsVars,
                   since>>

\* the fallback backoff deadline passes
BackoffOver ==
    /\ fallbackBackoffTime = "ahead"
    /\ fallbackBackoffTime' = "past"
    /\ UNCHANGED <<pc, sender, log, shouldAnnounce, announceWaiters, announce, poll,
                   degradedCheck, driverVars, envVars, fsVars, since>>

\* a ForceSend call's timeoutC fires
TimeoutFires(w) ==
    /\ fsTimeout[w] = "running"
    /\ fsTimeout' = [fsTimeout EXCEPT ![w] = "fired"]
    /\ UNCHANGED <<pc, sender, log, engineVars, driverVars, envVars, fsPc, closed,
                   within, since>>

\* the control stream connects: the handle has a sender to yield
Connect ==
    /\ ~handle
    /\ handle' = TRUE
    /\ UNCHANGED <<pc, sender, log, engineVars, driverVars, cancelled,
                   hasAnnouncer, cfg, server, metadataPtr, fsVars, since>>

\* the control stream is lost: the sender's Done fires
Disconnect ==
    /\ handle
    /\ handle' = FALSE
    /\ sender' = (IF sender = "live" THEN "done" ELSE sender)
    /\ UNCHANGED <<pc, log, engineVars, driverVars, cancelled, hasAnnouncer, cfg,
                   server, metadataPtr, fsVars, since>>

\* HeartbeatV2.Close, or the handle's close context ends
Close ==
    /\ ~cancelled
    /\ cancelled' = TRUE
    /\ UNCHANGED <<pc, sender, log, engineVars, driverVars, handle,
                   hasAnnouncer, cfg, server, metadataPtr, fsVars, since>>

\* the service's spec changes: cfg.GetServer() returns something else
SpecChanges(s) ==
    /\ s # server
    /\ server' = s
    /\ since' = Since("spec")
    /\ UNCHANGED <<pc, sender, log, engineVars, driverVars, handle, cancelled,
                   hasAnnouncer, cfg, metadataPtr, fsVars>>

\* ------------------------------------------------------------ specification

\* the values an SSHServerHeartbeatConfig can have: a field is set or not
Configs ==
    [InventoryHandle : BOOLEAN, GetServer : BOOLEAN, Announcer : BOOLEAN,
     OnHeartbeat : BOOLEAN, AnnounceInterval : {"zero", "set"},
     PollInterval : {"zero", "set"}]

\* a Check that does not look at GetServer
CheckHandleOnly(c) ==
    IF ~c.InventoryHandle
    THEN "missing required parameter InventoryHandle for ssh heartbeat"
    ELSE "nil"

\* SSHServerHeartbeatConfig.Check: the error it returns
Check(c) ==
    IF ~c.InventoryHandle
    THEN "missing required parameter InventoryHandle for ssh heartbeat"
    ELSE IF ~c.GetServer
    THEN "missing required parameter GetServer for ssh heartbeat"
    ELSE "nil"

\* heartbeatV2Config.SetDefaults, for the intervals a configuration gives
SetDefaults(c) ==
    [c EXCEPT !.AnnounceInterval = IF @ = "zero" THEN "default" ELSE @,
              !.PollInterval = IF @ = "zero" THEN "default" ELSE @]

\* the fields of a HeartbeatV2 and of its driver once constructed, and what
\* surrounds them
Fresh ==
    /\ shouldAnnounce = FALSE
    /\ fallbackBackoffTime = "past"
    /\ announceWaiters = <<>>
    /\ announce = "nil" /\ poll = "nil" /\ degradedCheck = "nil"
    /\ sender = "none"
    /\ log = <<>>
    /\ handle = FALSE
    /\ cancelled = FALSE
    /\ server = 1
    /\ prev = NoServer
    /\ metadataPtr = 0
    /\ fetchPrev = FALSE
    /\ fetchOther = "none"
    /\ fsPc = [w \in Waiters |-> "idle"]
    /\ fsTimeout = [w \in Waiters |-> "off"]
    /\ closed = {}
    /\ within = {}
    /\ since = {"no announce"}

\* an engine constructed from a configuration that Check accepts, with or
\* without an announcer
Init ==
    /\ pc = "new"
    /\ hasAnnouncer \in BOOLEAN
    /\ cfg = SetDefaults([InventoryHandle |-> TRUE, GetServer |-> TRUE,
                          Announcer |-> hasAnnouncer, OnHeartbeat |-> TRUE,
                          AnnounceInterval |-> "zero", PollInterval |-> "zero"])
    /\ Fresh

\* before construction: some configuration is about to be given to
\* NewSSHServerHeartbeat
ConfigInit ==
    /\ pc = "config"
    /\ cfg \in Configs
    /\ hasAnnouncer = FALSE
    /\ Fresh

\* NewSSHServerHeartbeat(cfg): an error and no engine when Check fails, else
\* the driver and the engine with its defaults set
NewSSHServerHeartbeat ==
    /\ pc = "config"
    /\ IF Check(cfg) # "nil"
       THEN /\ pc' = "no engine"
            /\ log' = <<E("error", Check(cfg))>>
            /\ UNCHANGED <<cfg, hasAnnouncer>>
       ELSE /\ pc' = "new"
            /\ log' = <<>>
            /\ cfg' = SetDefaults(cfg)
            /\ hasAnnouncer' = cfg.Announcer
    /\ UNCHANGED <<sender, engineVars, driverVars, handle, cancelled, server,
                   metadataPtr, fsVars, since>>

\* the construction of an engine from any configuration
ConstructSpec == ConfigInit /\ [][NewSSHServerHeartbeat]_vars

\* the worker goroutine, but for the receipt of force-send waiters
Engine ==
    \/ Start
    \/ Run
    \/ SelectSender
    \/ SelectAnnounce
    \/ SelectPoll
    \/ SelectDegradedCheck
    \/ SelectDone
    \/ RunWithSender
    \/ WithSenderDone
    \/ WithSenderAnnounce
    \/ WithSenderPoll
    \/ WithSenderDegradedCheck
    \/ WithSenderCancelled

\* the worker receives a force-send waiter
Receives ==
    \/ \E w \in Waiters : SelectTestAnnounce(w)
    \/ \E w \in Waiters : WithSenderTestAnnounce(w)

Worker == Engine \/ Receives

\* time passing, the control stream, Close
Env ==
    \/ AnnounceDue
    \/ PollDue
    \/ DegradedCheckDue
    \/ BackoffOver
    \/ Connect
    \/ Disconnect
    \/ Close

\* the service whose spec is announced, and the metadata fetches
Service ==
    \/ \E s \in Specs : SpecChanges(s)
    \/ \E got \in {0} \cup Metas, holdsPrev \in BOOLEAN : FetchEnds(got, holdsPrev)

\* fetches that end with nothing to publish
FetchFails == \E holdsPrev \in BOOLEAN : FetchEnds(0, holdsPrev)

\* the callers of ForceSend
Callers ==
    \/ \E w \in Waiters : ForceSend(w)
    \/ \E w \in Waiters : TimeoutFires(w)
    \/ \E w \in Waiters : TimeoutTrigger(w)
    \/ \E w \in Waiters : TimeoutSuccess(w)
    \/ \E w \in Waiters : ForceSendOk(w)

Next ==
    \/ Worker
    \/ Env
    \/ Service
    \/ Callers
    \/ \E s \in Specs : RunWithSenderSpecChanges(s)

\* the whole system
Spec == Init /\ [][Next]_vars

\* the engine and its driver with a service whose spec changes and whose cloud
\* metadata is fetched, ForceSend never called
ServiceSpec == Init /\ [][Engine \/ Env \/ Service]_vars

\* the engine and its driver with the callers of ForceSend, for a service
\* whose spec stays as it is and whose metadata fetches are still pending
CallerSpec == Init /\ [][Worker \/ Env \/ Callers]_vars

\* the engine and its driver for a service whose spec stays as it is and that
\* has no cloud metadata, ForceSend never called: the worker goroutine runs
\* whenever it has a step to take, its select chooses at random among the
\* cases that are ready, so that the done signal of a sender is received if it
\* stays or keeps coming ready, and time passes, so that an armed interval
\* comes due
FairEngineSpec ==
    /\ Init /\ [][Engine \/ Env \/ FetchFails]_vars
    /\ WF_vars(Engine)
    /\ SF_vars(WithSenderDone)
    /\ WF_vars(AnnounceDue)
    /\ WF_vars(PollDue)
    /\ WF_vars(DegradedCheckDue)

\* ------------------------------------------------------------ properties

\* the step is one of the worker's: each of them moves pc, no other step does
WorkerStep == pc' # pc

\* the step log l is that of a send attempt by call that emitted ev
DidSend(l, call, ev) ==
    /\ Len(l) >= 2
    /\ l[1] = E("call", call)
    /\ l[2] = E("event", ev)

\* the step is a send attempt, on the path of the loop the worker is in, that
\* returned ok: the driver has recorded the snapshot it sent
SendSucceeds ==
    /\ WorkerStep
    /\ prev' = GetServer
    /\ \/ pc = "run" /\ DidSend(log', "FallbackAnnounce", "fallback-ok")
       \/ pc = "runWithSender" /\ DidSend(log', "Announce", "announce-ok")

\* the step is a send attempt that failed
SendFails ==
    /\ WorkerStep
    /\ \/ pc = "run" /\ DidSend(log', "FallbackAnnounce", "fallback-err")
       \/ pc = "runWithSender" /\ DidSend(log', "Announce", "announce-err")

\* C1: the should-announce latch goes from set to clear only in a step of the
\* worker in which Announce (with-sender loop) or FallbackAnnounce (no-sender
\* loop) has returned ok; no tick, force-send, sender arrival, sender-done,
\* failed send or backoff step clears it.
LatchClearedOnlyBySuccess ==
    [][(shouldAnnounce /\ ~shouldAnnounce') => SendSucceeds]_vars

\* C1 witness: a force-send set the latch and a successful Announce cleared it
LatchClearedByAnnounce ==
    /\ pc = "selectWithSender"
    /\ DidSend(log, "Announce", "announce-ok")
    /\ ~shouldAnnounce
    /\ closed # {}

\* C2 as claimed: prev and its contents change only in a step in which
\* Announce or FallbackAnnounce returned ok.
PrevChangedOnlyBySuccess ==
    [][prev' # prev => SendSucceeds]_vars

\* C3: a waiter is closed only in a step in which Announce or FallbackAnnounce
\* returned ok, and only if it was parked before that step; no other step
\* closes a waiter, so that once run() has returned a call still waiting can
\* only time out.
WaiterClosedOnlyBySuccess ==
    [][/\ closed' # closed =>
            /\ SendSucceeds
            /\ closed' \ closed = Range(announceWaiters)
       /\ \A w \in Waiters :
            (pc = "returned" /\ fsPc[w] = "waiting" /\ w \notin closed
               /\ fsPc'[w] # fsPc[w])
            => fsPc'[w] = "timeout waiting for announce success"]_vars

\* C3 witness: run() has returned with a waiter parked, and its call timed out
WaiterLeftOpenByCancel ==
    \E w \in Waiters :
      /\ pc = "returned"
      /\ w \in Range(announceWaiters)
      /\ w \notin closed
      /\ fsPc[w] = "timeout waiting for announce success"

\* C9: FallbackAnnounce is called only when the backoff deadline has passed;
\* a failure sets the deadline ahead, only the passing of time moves it into
\* the past again, and until then the preamble of the no-sender loop, with the
\* latch set, emits the backoff event and nothing else.
NoFallbackDuringBackoff ==
    [][/\ (WorkerStep /\ Has(log', E("call", "FallbackAnnounce")))
            => (pc = "run" /\ NowAfter(fallbackBackoffTime))
       /\ (pc = "run" /\ SendFails) => ~NowAfter(fallbackBackoffTime')
       /\ (~NowAfter(fallbackBackoffTime) /\ NowAfter(fallbackBackoffTime'))
            => ~WorkerStep
       /\ (WorkerStep /\ pc = "run" /\ shouldAnnounce /\ SupportsFallback
             /\ ~NowAfter(fallbackBackoffTime))
            => /\ log' = <<E("event", "hb-fallback-backoff")>>
               /\ UNCHANGED <<engineVars, driverVars, closed>>]_vars

\* C9 witness: back in the no-sender loop after a round trip through the
\* with-sender loop, a force-send since, the deadline of an earlier
\* failure still ahead: the preamble has emitted the backoff event
BackoffEventAfterRoundTrip ==
    /\ pc = "select"
    /\ log = <<E("event", "hb-fallback-backoff")>>
    /\ ~NowAfter(fallbackBackoffTime)
    /\ announceWaiters # <<>>
    /\ prev # NoServer

\* what Poll returns in the current state
PollReports == prev = NoServer \/ CompareServers(GetServer, prev) = "Different"

\* what the select of the worker's last step received from, "" when the step
\* was not the handling of a select case
Received(l) == IF l # <<>> /\ l[1][1] = "recv" THEN l[1][2] ELSE ""

\* the callbacks a step log holds, in order
RECURSIVE Callbacks(_)
Callbacks(l) ==
    IF l = <<>> THEN <<>>
    ELSE (IF Head(l)[1] = "onHeartbeat" THEN <<Head(l)[2]>> ELSE <<>>) \o Callbacks(Tail(l))

\* C10: a degraded-check tick in the no-sender loop invokes onHeartbeat with
\* the no_sender error exactly when the driver has no fallback, or Poll
\* reports no change and the latch is clear; it invokes no other callback.
DegradedCheckEmitsNoSender ==
    [][(WorkerStep /\ pc = "select" /\ Received(log') = "degradedCheck.Next")
       => Callbacks(log') =
            (IF ~SupportsFallback \/ (~PollReports /\ ~shouldAnnounce)
             THEN <<"noSenderErr">> ELSE <<>>)]_vars

\* C10 witness: the driver has a fallback, the last announce succeeded and
\* nothing changed since: the degraded check has emitted no_sender
NoSenderEmittedWithFallback ==
    /\ pc = "run"
    /\ SupportsFallback
    /\ prev # NoServer
    /\ Received(log) = "degradedCheck.Next"
    /\ Callbacks(log) = <<"noSenderErr">>

\* a ForceSend call that has returned
Returned(w) ==
    fsPc[w] \in {"nil", "timeout waiting to trigger announce",
                 "timeout waiting for announce success"}

\* C4 as claimed: a ForceSend call that has returned has returned nil if and
\* only if an announce succeeded after the call was made and before its
\* timeout elapsed.
ForceSendOkIffAnnounceWithin ==
    \A w \in Waiters : Returned(w) => (fsPc[w] = "nil" <=> w \in within)

\* C4: ForceSend returns nil only from its wait on a waiter that a successful
\* announce has closed, and a waiter is closed only if the worker had received
\* it before that announce; it returns a timeout error only once its timeout
\* has elapsed, whether or not an announce succeeded in the meantime; and a
\* successful announce empties the list of parked waiters, those of
\* timed-out calls included.
ForceSendOkOnlyAfterParkedSuccess ==
    [][/\ \A w \in Waiters :
            /\ (fsPc'[w] = "nil" /\ fsPc[w] # "nil")
                 => (fsPc[w] = "waiting" /\ w \in closed)
            /\ (Returned(w)' /\ ~Returned(w) /\ fsPc'[w] # "nil")
                 => fsTimeout[w] = "fired"
            /\ (w \in closed' /\ w \notin closed)
                 => (SendSucceeds /\ w \in Range(announceWaiters))
       /\ SendSucceeds => (announceWaiters' = <<>> /\ Range(announceWaiters) \subseteq closed')
      ]_vars

\* C4 witness: a call made while the worker had no sender has returned nil,
\* its waiter closed by a fallback announce that succeeded before its timeout
ForceSendOkByFallback ==
    \E w \in Waiters :
      /\ fsPc[w] = "nil"
      /\ w \in within
      /\ pc = "select"
      /\ DidSend(log, "FallbackAnnounce", "fallback-ok")

\* the step is the handling of a poll tick in the with-sender loop
WithSenderPollTick ==
    WorkerStep /\ pc = "selectWithSender" /\ Received(log') = "poll.Next"

\* C5: whenever the worker is at the top of the with-sender loop and no
\* announce has ever succeeded, the latch is set: the entry poll that follows
\* the receipt of a sender reports changed and leads to that preamble, which
\* calls Announce exactly once, first of all, before the worker waits for any
\* event; if the send succeeds there is exactly one successful announce, prev
\* is set and the latch is clear when the worker starts to wait.
FirstCycleAnnounce ==
    [][/\ (pc = "runWithSender" /\ prev = NoServer) => shouldAnnounce
       /\ (WorkerStep /\ pc = "select" /\ Received(log') = "handle.Sender"
             /\ prev = NoServer)
            => (Has(log', E("call", "Poll")) /\ shouldAnnounce'
                  /\ pc' = "runWithSender")
       /\ (WorkerStep /\ pc = "runWithSender" /\ prev = NoServer)
            => /\ Head(log') = E("call", "Announce")
               /\ Count(log', E("call", "Announce")) = 1
               /\ pc' = "selectWithSender"
               /\ \/ SendSucceeds /\ Count(log', E("event", "announce-ok")) = 1
                       /\ prev' # NoServer /\ ~shouldAnnounce'
                  \/ SendFails /\ prev' = NoServer /\ shouldAnnounce'
      ]_vars

\* C5 witness: a sender was received before any announce succeeded and the
\* entry poll has set the latch
EntryPollSetsLatch ==
    /\ pc = "runWithSender"
    /\ prev = NoServer
    /\ Received(log) = "handle.Sender"
    /\ Has(log, E("set", "shouldAnnounce=true"))
    /\ shouldAnnounce

\* C6 as claimed: after a successful announce the poll ticks of the
\* with-sender loop report poll-same until the spec changes.
PollSameUntilSpecChanges ==
    [][(WithSenderPollTick /\ since \cap {"spec", "no announce"} = {})
       => Has(log', E("event", "poll-same"))]_vars

\* C6: a poll tick of the with-sender loop emits poll-diff, once, and sets the
\* latch exactly when the snapshot getServer returns differs from prev, as it
\* does after a mutation of the spec; the preamble that follows calls Announce
\* once and, on success, emits announce-ok once, after which the poll ticks
\* report poll-same until the spec or the cloud metadata stamped on the
\* snapshots changes.
ChangeTriggersAnnounce ==
    [][/\ WithSenderPollTick
            => /\ Count(log', E("event", "poll-diff")) = (IF PollReports THEN 1 ELSE 0)
               /\ Count(log', E("event", "poll-same")) = (IF PollReports THEN 0 ELSE 1)
               /\ PollReports => shouldAnnounce'
               /\ pc' = "runWithSender"
       /\ (WithSenderPollTick /\ prev # NoServer /\ prev.spec # server)
            => Has(log', E("event", "poll-diff"))
       /\ (WithSenderPollTick /\ since \cap {"spec", "metadata", "no announce"} = {})
            => Has(log', E("event", "poll-same"))
       /\ (WorkerStep /\ pc = "runWithSender" /\ shouldAnnounce)
            => /\ Count(log', E("call", "Announce")) = 1
               /\ SendSucceeds \/ SendFails
               /\ SendSucceeds => /\ Count(log', E("event", "announce-ok")) = 1
                                  /\ ~shouldAnnounce'
                                  /\ ~PollReports'
                                  /\ since' = {}
      ]_vars

\* C6 witness: the spec has changed, once, since the last successful announce
\* and the poll tick of the with-sender loop has reported poll-diff
PollDiffAfterSpecChange ==
    /\ pc = "runWithSender"
    /\ sender = "live"
    /\ since = {"spec"}
    /\ Received(log) = "poll.Next"
    /\ Has(log, E("event", "poll-diff"))
    /\ shouldAnnounce

\* C7 as claimed: in the with-sender loop, the spec unchanged and no
\* force-send received since the last successful announce, a poll tick does
\* not set the latch and Announce is called only after an announce tick.
NoAnnounceWhileSpecUnchanged ==
    [][(pc \in {"runWithSender", "selectWithSender"}
          /\ since \cap {"spec", "force-send", "no announce"} = {})
       => /\ WithSenderPollTick => (shouldAnnounce' = shouldAnnounce)
          /\ (WorkerStep /\ Has(log', E("call", "Announce")))
               => "announce tick" \in since]_vars

\* C7: in the with-sender loop, the snapshot getServer returns (the spec and
\* the cloud metadata stamped on it) unchanged and no force-send received
\* since the last successful announce, a poll tick reports poll-same, does
\* not set the latch and Announce is called only after an announce tick; with
\* no announce tick either, the latch is clear.
SteadyStateCoalescing ==
    [][(pc \in {"runWithSender", "selectWithSender"}
          /\ since \cap {"spec", "metadata", "force-send", "no announce"} = {})
       => /\ WithSenderPollTick => /\ shouldAnnounce' = shouldAnnounce
                                   /\ Has(log', E("event", "poll-same"))
          /\ (WorkerStep /\ Has(log', E("call", "Announce")))
               => "announce tick" \in since
          /\ since = {} => ~shouldAnnounce]_vars

\* C7 witness: nothing has happened since the last successful announce but a
\* poll tick, which has reported poll-same and left the latch clear
PollTickInSteadyState ==
    /\ pc = "runWithSender"
    /\ since = {}
    /\ Received(log) = "poll.Next"
    /\ Has(log, E("event", "poll-same"))
    /\ ~shouldAnnounce

\* the driver has a fallback, the latch is set and the backoff deadline is past
FallbackPending ==
    SupportsFallback /\ shouldAnnounce /\ NowAfter(fallbackBackoffTime)

\* the worker has just called FallbackAnnounce
FallbackAttempted ==
    pc = "select" /\ Has(log, E("call", "FallbackAnnounce"))

\* C8: once the done signal of the current sender has fired, the worker
\* eventually is back at the top of the no-sender loop; from there, the driver
\* supporting fallback, the latch set and the backoff deadline past, it
\* eventually calls FallbackAnnounce; and when these three come to hold while
\* it waits in the no-sender loop it eventually calls FallbackAnnounce unless
\* it has received a sender or run() has returned before.
StreamLossLeadsToFallback ==
    /\ (pc \in {"runWithSender", "selectWithSender"} /\ sender = "done")
         ~> (pc = "run")
    /\ (pc = "run" /\ FallbackPending) ~> FallbackAttempted
    /\ (pc = "select" /\ FallbackPending)
         ~> (FallbackAttempted \/ pc \in {"runWithSender", "returned"})

\* C8 witness: the worker is back at the top of the no-sender loop after the
\* done signal of its sender, and the fallback is due
FallbackPendingAfterStreamLoss ==
    /\ pc = "run"
    /\ Received(log) = "sender.Done"
    /\ FallbackPending
    /\ prev # NoServer

\* ------------------------------------------------------------ scenarios

\* the preamble of the no-sender loop with an announcer that fails every call
RunFallbackFails == Run /\ ~SendSucceeds

\* the preamble of the no-sender loop with an announcer that never fails
RunFallbackSucceeds == Run /\ ~SendFails

\* the no-sender loop but for its preamble and the end of backoffs: no control
\* stream ever connects
NoSender ==
    \/ Start
    \/ SelectAnnounce
    \/ SelectPoll
    \/ SelectDegradedCheck
    \/ SelectDone
    \/ AnnounceDue
    \/ PollDue
    \/ DegradedCheckDue
    \/ Close
    \/ Service

\* scenario S4: no sender, and every FallbackAnnounce call fails
FallbackFailsSpec == Init /\ [][RunFallbackFails \/ BackoffOver \/ NoSender]_vars

\* scenario S3: no sender, and every FallbackAnnounce call succeeds
FallbackSucceedsSpec == Init /\ [][RunFallbackSucceeds \/ NoSender]_vars

\* the step is the handling of a degraded-check tick in the no-sender loop
DegradedCheckTick ==
    WorkerStep /\ pc = "select" /\ Received(log') = "degradedCheck.Next"

\* C11 as claimed: FallbackAnnounce failing on every call, a degraded-check
\* tick handled after a fallback attempt (the latch is set from the first
\* attempt on) emits onHeartbeat(no_sender).
NoSenderBetweenFailedAttempts ==
    [][(DegradedCheckTick /\ SupportsFallback /\ shouldAnnounce)
       => Callbacks(log') = <<"noSenderErr">>]_vars

\* C11: FallbackAnnounce failing on every call, each attempt invokes
\* onHeartbeat(fallback_failed), once, and leaves the latch set, which no
\* later step clears; a degraded-check tick of a fallback-capable driver,
\* between two attempts or before the first, invokes no callback (prev is
\* never set, so that Poll reports a change each time).
NoCallbackBetweenFailedAttempts ==
    [][/\ (WorkerStep /\ pc = "run" /\ Has(log', E("call", "FallbackAnnounce")))
            => (Callbacks(log') = <<"fallbackFailed">> /\ shouldAnnounce')
       /\ (DegradedCheckTick /\ SupportsFallback) => Callbacks(log') = <<>>
       /\ (shouldAnnounce /\ pc # "new") => shouldAnnounce'
       /\ prev' = NoServer]_vars

\* C11 witness: a degraded-check tick was handled during the backoff that
\* follows a failed fallback attempt, and no callback was invoked
DegradedCheckDuringBackoff ==
    /\ pc = "run"
    /\ Received(log) = "degradedCheck.Next"
    /\ Callbacks(log) = <<>>
    /\ SupportsFallback
    /\ shouldAnnounce
    /\ ~NowAfter(fallbackBackoffTime)

\* C12 as claimed: FallbackAnnounce succeeding on every call, no
\* degraded-check tick of a fallback-capable driver invokes onHeartbeat with
\* an error.
NoErrorWhileFallbackSucceeds ==
    [][(DegradedCheckTick /\ SupportsFallback) => Callbacks(log') = <<>>]_vars

\* C12: FallbackAnnounce succeeding on every call, a degraded-check tick of a
\* fallback-capable driver invokes onHeartbeat(no_sender) exactly when Poll
\* reports no change and the latch is clear, as after a fallback success with
\* the snapshot unchanged, and no callback otherwise; the preamble emits no
\* error.
NoSenderAfterFallbackSuccess ==
    [][/\ (DegradedCheckTick /\ SupportsFallback)
            => /\ (~PollReports /\ ~shouldAnnounce) => Callbacks(log') = <<"noSenderErr">>
               /\ (PollReports \/ shouldAnnounce) => Callbacks(log') = <<>>
               /\ since = {} => Callbacks(log') = <<"noSenderErr">>
       /\ (WorkerStep /\ pc = "run") => Callbacks(log') \in {<<>>, <<"nil">>}]_vars

\* C12 witness: nothing has happened since a fallback success and the
\* degraded-check tick has emitted no_sender
NoSenderWithWorkingFallback ==
    /\ pc = "run"
    /\ Received(log) = "degradedCheck.Next"
    /\ Callbacks(log) = <<"noSenderErr">>
    /\ SupportsFallback
    /\ since = {}

\* a comes before b in the step log l
Before(l, a, b) == \E i, j \in DOMAIN l : i < j /\ l[i] = a /\ l[j] = b

\* C13 as claimed: in a successful send step the latch is cleared before the
\* waiters are closed and before the announce and degraded-check intervals
\* are reset.
LatchClearedBeforeResets ==
    [][SendSucceeds =>
         /\ Before(log', E("set", "shouldAnnounce=false"), E("close", "announceWaiters"))
         /\ Before(log', E("set", "shouldAnnounce=false"), E("reset", "announce"))
         /\ Before(log', E("set", "shouldAnnounce=false"), E("reset", "degradedCheck"))]_vars

\* C13: in a successful send step, on either path, the latch is cleared once,
\* before the waiters are closed but after the announce and the
\* degraded-check intervals have been reset.
LatchClearedAfterResets ==
    [][SendSucceeds =>
         /\ Count(log', E("set", "shouldAnnounce=false")) = 1
         /\ Before(log', E("set", "shouldAnnounce=false"), E("close", "announceWaiters"))
         /\ Before(log', E("reset", "announce"), E("set", "shouldAnnounce=false"))
         /\ Before(log', E("reset", "degradedCheck"), E("set", "shouldAnnounce=false"))
         /\ ~shouldAnnounce']_vars

\* C13 witness: a fallback announce has succeeded, the latch is clear and a
\* parked waiter has been closed
LatchClearedByFallback ==
    /\ pc = "select"
    /\ DidSend(log, "FallbackAnnounce", "fallback-ok")
    /\ ~shouldAnnounce
    /\ closed # {}
    /\ announceWaiters = <<>>

\* C14 as claimed: in a successful send step the effects come in the order
\* latch-clear, timer-reset, waiter-fire, heartbeat-ok callback.
SuccessBlockAsClaimed ==
    [][SendSucceeds =>
         /\ Before(log', E("set", "shouldAnnounce=false"), E("reset", "announce"))
         /\ Before(log', E("reset", "degradedCheck"), E("close", "announceWaiters"))
         /\ Before(log', E("close", "announceWaiters"), E("onHeartbeat", "nil"))]_vars

\* C14: a successful send, on either path, is followed in the same step of
\* the worker, nothing in between, by the reset of the announce interval, the
\* reset of the degraded-check interval, the clearing of the latch, the
\* heartbeat-ok callback and the closing of the waiters, in this order: the
\* callback is invoked before the waiters are closed.
SuccessBlockInOrder ==
    [][SendSucceeds =>
         /\ Len(log') = 8
         /\ log'[1] \in {E("call", "Announce"), E("call", "FallbackAnnounce")}
         /\ log'[2] \in {E("event", "announce-ok"), E("event", "fallback-ok")}
         /\ log'[3] = E("reset", "announce")
         /\ log'[4] = E("reset", "degradedCheck")
         /\ log'[5] = E("set", "shouldAnnounce=false")
         /\ log'[6] = E("event", "on-heartbeat-ok")
         /\ log'[7] = E("onHeartbeat", "nil")
         /\ log'[8] = E("close", "announceWaiters")]_vars

\* C14 witness: an announce over the control stream has succeeded with two
\* things to do after it: a waiter to close and the heartbeat to report
SuccessBlockWithWaiter ==
    /\ pc = "selectWithSender"
    /\ Len(log) = 8
    /\ Callbacks(log) = <<"nil">>
    /\ closed # {}
    /\ sender = "live"

\* C15 as claimed: a successful send clears the latch and resets the
\* announce, the poll and the degraded-check interval.
SuccessResetsAllThree ==
    [][SendSucceeds =>
         /\ ~shouldAnnounce'
         /\ Has(log', E("reset", "announce"))
         /\ Has(log', E("reset", "poll"))
         /\ Has(log', E("reset", "degradedCheck"))]_vars

\* C15: a successful send, on either path, clears the latch and resets the
\* announce and the degraded-check interval; the poll interval is not reset,
\* a poll tick that was due stays due.
SuccessResetsAnnounceAndDegradedCheck ==
    [][SendSucceeds =>
         /\ ~shouldAnnounce'
         /\ Has(log', E("reset", "announce")) /\ announce' = ResetInterval
         /\ Has(log', E("reset", "degradedCheck")) /\ degradedCheck' = ResetInterval
         /\ ~Has(log', E("reset", "poll")) /\ poll' = poll]_vars

\* C15 witness: an announce has succeeded while a poll tick was due: the poll
\* tick is still due, the announce and the degraded-check interval are armed
\* anew
PollStillDueAfterSuccess ==
    /\ pc \in {"select", "selectWithSender"}
    /\ Len(log) = 8
    /\ poll = "ready"
    /\ announce = "armed"
    /\ degradedCheck = "armed"

\* the step is the handling of the event selected after a preamble: the log
\* before it is that of the preamble of the same iteration
HandlesEvent == WorkerStep /\ pc \in {"select", "selectWithSender"}

\* C16 as claimed: in one iteration of either loop, the preamble and the
\* handling of the event selected after it, onHeartbeat is invoked at most
\* once.
OneCallbackPerIteration ==
    [][HandlesEvent => Len(Callbacks(log) \o Callbacks(log')) <= 1]_vars

\* C16: the preamble of an iteration invokes onHeartbeat at most once and so
\* does the handling of the event selected after it; both do, the callback
\* running twice in the iteration, only when a degraded-check tick is handled
\* after a successful send: onHeartbeat(nil) then onHeartbeat(no_sender) in the
\* no-sender loop, onHeartbeat(nil) twice in the with-sender loop. After a
\* failed send the handler invokes no callback.
TwoCallbacksOnlyAfterSuccess ==
    [][/\ WorkerStep => Len(Callbacks(log')) <= 1
       /\ (HandlesEvent /\ Callbacks(log) # <<>> /\ Callbacks(log') # <<>>)
            => /\ Callbacks(log) = <<"nil">>
               /\ Received(log') = "degradedCheck.Next"
               /\ Callbacks(log') = (IF pc = "select" THEN <<"noSenderErr">>
                                     ELSE <<"nil">>)
               /\ ~PollReports]_vars

\* C16 witness: in the with-sender loop the degraded check was handled right
\* after a successful announce and has invoked onHeartbeat(nil) again
SecondCallbackInIteration ==
    /\ pc = "runWithSender"
    /\ Received(log) = "degradedCheck.Next"
    /\ Callbacks(log) = <<"nil">>
    /\ since = {}
    /\ degradedCheck = "armed"
    /\ announce = "armed"

\* C17 as claimed: in one iteration of the no-sender loop onHeartbeat(nil) of
\* a successful fallback and onHeartbeat(no_sender) of a degraded-check tick
\* do not both occur.
NoSuccessThenNoSender ==
    [][(HandlesEvent /\ pc = "select")
       => ~(Has(log, E("onHeartbeat", "nil")) /\ Has(log', E("onHeartbeat", "noSenderErr")))]_vars

\* C17: in one iteration of the no-sender loop onHeartbeat(no_sender) never
\* comes before onHeartbeat(nil), the preamble emitting no no_sender; after
\* the onHeartbeat(nil) of a successful fallback the event handled in the same
\* iteration invokes onHeartbeat(no_sender) exactly when it is a
\* degraded-check tick and Poll reports no change, and no callback otherwise.
NoSenderOnlyAfterSuccess ==
    [][/\ (WorkerStep /\ pc = "run") => ~Has(log', E("onHeartbeat", "noSenderErr"))
       /\ (HandlesEvent /\ pc = "select" /\ Has(log, E("onHeartbeat", "nil")))
            => /\ DidSend(log, "FallbackAnnounce", "fallback-ok")
               /\ Callbacks(log') =
                    (IF Received(log') = "degradedCheck.Next" /\ ~PollReports
                     THEN <<"noSenderErr">> ELSE <<>>)]_vars

\* C17 witness: the spec changed after a successful fallback and the
\* degraded-check tick handled in the same iteration has invoked no callback
DegradedCheckSeesChange ==
    /\ pc = "run"
    /\ Received(log) = "degradedCheck.Next"
    /\ Callbacks(log) = <<>>
    /\ SupportsFallback
    /\ ~shouldAnnounce
    /\ since = {"spec"}

\* C18 as claimed: the step of the worker that follows its receipt of
\* closeContext.Done at a select, if there is one, invokes no onHeartbeat and
\* calls neither Announce nor FallbackAnnounce.
CancellationIsSilent ==
    [][(WorkerStep /\ Received(log) = "closeContext.Done")
       => /\ Callbacks(log') = <<>>
          /\ ~Has(log', E("call", "Announce"))
          /\ ~Has(log', E("call", "FallbackAnnounce"))]_vars

\* FairEngineSpec with the select of either loop receiving from
\* closeContext.Done if it stays or keeps coming ready
FairCloseSpec ==
    /\ FairEngineSpec
    /\ SF_vars(SelectDone)
    /\ SF_vars(WithSenderCancelled)

\* C19: run() has returned only if the context was cancelled, and once it is
\* cancelled run() eventually returns, whether the worker was in the
\* no-sender or in the with-sender loop.
RunReturnsAfterClose ==
    /\ [](pc = "returned" => cancelled)
    /\ (cancelled /\ pc \in {"run", "select"}) ~> (pc = "returned")
    /\ (cancelled /\ pc \in {"runWithSender", "selectWithSender"}) ~> (pc = "returned")

\* C19 witness: run() has returned, the context cancelled, after the worker
\* had been in the with-sender loop, where alone this driver can announce
ReturnedThroughBothLoops ==
    /\ pc = "returned"
    /\ cancelled
    /\ prev # NoServer
    /\ ~SupportsFallback
    /\ Has(log, E("event", "hb-close"))

\* C20: every value passed to onHeartbeat is nil or one of announceFailed,
\* fallbackFailed and noSenderErr; announceFailed is passed only by the
\* preamble of the with-sender loop after a failed Announce, fallbackFailed
\* only by the preamble of the no-sender loop after a failed FallbackAnnounce,
\* noSenderErr only by the handling of a degraded-check tick in the no-sender
\* loop.
OnHeartbeatSentinels ==
    [][WorkerStep =>
         /\ Range(Callbacks(log')) \subseteq
              {"nil", "announceFailed", "fallbackFailed", "noSenderErr"}
         /\ Has(log', E("onHeartbeat", "announceFailed"))
              => (pc = "runWithSender" /\ DidSend(log', "Announce", "announce-err"))
         /\ Has(log', E("onHeartbeat", "fallbackFailed"))
              => (pc = "run" /\ DidSend(log', "FallbackAnnounce", "fallback-err"))
         /\ Has(log', E("onHeartbeat", "noSenderErr"))
              => (pc = "select" /\ Received(log') = "degradedCheck.Next")]_vars

\* C20 witness: a fallback announce has failed after an announce over the
\* control stream had succeeded, and fallbackFailed was passed to onHeartbeat
FallbackFailedReported ==
    /\ pc = "select"
    /\ DidSend(log, "FallbackAnnounce", "fallback-err")
    /\ Callbacks(log) = <<"fallbackFailed">>
    /\ prev # NoServer

\* ------------------------------------------------------------ no sender, with callers

\* the no-sender loop of run() with the callers of ForceSend: no control
\* stream ever connects
NoSenderLoop ==
    \/ Start
    \/ Run
    \/ SelectAnnounce
    \/ SelectPoll
    \/ SelectDegradedCheck
    \/ SelectDone
    \/ \E w \in Waiters : SelectTestAnnounce(w)

\* time passing and Close, with no control stream
NoSenderEnv ==
    \/ AnnounceDue
    \/ PollDue
    \/ DegradedCheckDue
    \/ BackoffOver
    \/ Close

\* the worker goroutine runs whenever it is not blocked in its select, and
\* the select, which chooses at random among the cases that are ready,
\* receives from a channel that stays or keeps coming ready; a ForceSend
\* call's timeout fires in the end, and the call's own selects run
FairNoSenderSpec ==
    /\ Init /\ [][NoSenderLoop \/ NoSenderEnv \/ Callers]_vars
    /\ WF_vars(Start \/ Run)
    /\ SF_vars(SelectAnnounce)
    /\ SF_vars(SelectPoll)
    /\ SF_vars(SelectDegradedCheck)
    /\ \A w \in Waiters : SF_vars(SelectTestAnnounce(w))

\* C21: while no sender is to be had and the context is not cancelled, the
\* worker does not wait on the sender alone: its three intervals stay armed
\* or ready, a worker that has not returned can take a step or has a tick
\* yet to come due, and every announce, poll and degraded-check tick and
\* every force-send that is ready is received by the select (or the context
\* is cancelled, or the force-send times out, before that).
NeverWedged ==
    /\ [](pc \in {"run", "select"}
            => /\ announce \in {"armed", "ready"}
               /\ poll \in {"armed", "ready"}
               /\ degradedCheck \in {"armed", "ready"})
    /\ [](pc # "returned"
            => ENABLED (NoSenderLoop \/ AnnounceDue \/ PollDue \/ DegradedCheckDue))
    /\ (announce = "ready") ~> (announce = "armed" \/ cancelled)
    /\ (poll = "ready") ~> (poll = "armed" \/ cancelled)
    /\ (degradedCheck = "ready") ~> (degradedCheck = "armed" \/ cancelled)
    /\ \A w \in Waiters :
         (fsPc[w] = "sending")
           ~> (fsPc[w] = "waiting" \/ fsTimeout[w] = "fired" \/ cancelled)

\* C21 witness: with no sender and the context not cancelled, the select has
\* received a force-send waiter while a poll and a degraded-check tick were
\* ready too
ForceSendServedAmongTicks ==
    /\ pc = "run"
    /\ Received(log) = "testAnnounce"
    /\ ~cancelled
    /\ sender = "none"
    /\ poll = "ready"
    /\ degradedCheck = "ready"

\* ------------------------------------------------------------ the engine alone

\* the engine and its driver with a service whose spec changes and that has
\* no cloud metadata, ForceSend never called
EngineSpec ==
    Init /\ [][Engine \/ Env \/ FetchFails \/ \E s \in Specs : SpecChanges(s)]_vars

\* the test events a step log holds, in order
RECURSIVE Events(_)
Events(l) ==
    IF l = <<>> THEN <<>>
    ELSE (IF Head(l)[1] = "event" THEN <<Head(l)[2]>> ELSE <<>>) \o Events(Tail(l))

\* the step is the first preamble of the with-sender loop after a sender was
\* received while nothing had been announced yet
FirstPreambleOfColdStart ==
    /\ WorkerStep
    /\ pc = "runWithSender"
    /\ Received(log) = "handle.Sender"
    /\ prev = NoServer

\* C22 as claimed: run() starts with hb-start, its first preamble emits
\* nothing, and when a sender is received with nothing announced yet and the
\* send succeeds, the events of the entry into the with-sender loop and of
\* its first preamble are poll-diff, announce-ok, on-heartbeat-ok.
ColdStartEventsAsClaimed ==
    [][/\ (WorkerStep /\ pc = "new") => Events(log') = <<"hb-start">>
       /\ (WorkerStep /\ pc = "run" /\ Events(log) = <<"hb-start">>)
            => Events(log') = <<>>
       /\ FirstPreambleOfColdStart => Has(log', E("call", "Announce"))
       /\ (FirstPreambleOfColdStart /\ SendSucceeds)
            => Events(log) \o Events(log')
                 = <<"poll-diff", "announce-ok", "on-heartbeat-ok">>]_vars

\* C22: run() starts with hb-start, its first preamble emits nothing, and
\* when a sender is received with nothing announced yet and the send
\* succeeds, the poll on entry into the with-sender loop sets the latch and
\* emits no event, and the first preamble emits announce-ok, then
\* on-heartbeat-ok.
ColdStartEvents ==
    [][/\ (WorkerStep /\ pc = "new") => Events(log') = <<"hb-start">>
       /\ (WorkerStep /\ pc = "run" /\ Events(log) = <<"hb-start">>)
            => Events(log') = <<>>
       /\ (WorkerStep /\ Received(log') = "handle.Sender")
            => /\ Events(log') = <<>>
               /\ prev = NoServer => shouldAnnounce'
       /\ FirstPreambleOfColdStart => Has(log', E("call", "Announce"))
       /\ (FirstPreambleOfColdStart /\ SendSucceeds)
            => Events(log) \o Events(log') = <<"announce-ok", "on-heartbeat-ok">>]_vars

\* C22 witness: the first announce after a cold start has succeeded, in the
\* preamble that followed the receipt of the sender, and no tick has come due
ColdStartAnnounced ==
    /\ pc = "selectWithSender"
    /\ Events(log) = <<"announce-ok", "on-heartbeat-ok">>
    /\ since = {}
    /\ sender = "live"
    /\ ~cancelled
    /\ announce = "armed" /\ poll = "armed" /\ degradedCheck = "armed"
    /\ fetchOther = "none"

\* the step is the receipt of a sender from the handle in the no-sender loop
\* together with the entry of runWithSender
SenderReceived == WorkerStep /\ pc = "select" /\ Received(log') = "handle.Sender"

\* C24 as claimed: the step that receives a new sender resets the
\* degraded-check interval, before it makes the entry poll of the with-sender
\* loop.
DegradedCheckResetOnEntry ==
    [][SenderReceived
         => /\ Before(log', E("reset", "degradedCheck"), E("call", "Poll"))
            /\ degradedCheck' = ResetInterval]_vars

\* C24: the step that receives a new sender and makes the entry poll of the
\* with-sender loop leaves the degraded-check interval as it is, a pending
\* tick included; the interval is reset when the with-sender loop returns to
\* the no-sender loop.
DegradedCheckResetOnReturn ==
    [][/\ SenderReceived
            => /\ ~Has(log', E("reset", "degradedCheck"))
               /\ degradedCheck' = degradedCheck
       /\ (WorkerStep /\ pc = "selectWithSender" /\ pc' = "run")
            => /\ log' = <<E("recv", Received(log')), E("reset", "degradedCheck")>>
               /\ Received(log') \in {"sender.Done", "closeContext.Done"}
               /\ degradedCheck' = ResetInterval]_vars

\* C24 witness: a sender has been received and the entry poll made while a
\* degraded-check tick was pending, and the tick is pending still
DegradedCheckPendingOnEntry ==
    /\ pc = "runWithSender"
    /\ Received(log) = "handle.Sender"
    /\ degradedCheck = "ready"
    /\ sender = "live"

\* ------------------------------------------------------------ scenario S5

\* the callers of ForceSend when no announce ever succeeds
CallersTimingOut ==
    \/ \E w \in Waiters : ForceSend(w)
    \/ \E w \in Waiters : TimeoutFires(w)
    \/ \E w \in Waiters : TimeoutTrigger(w)
    \/ \E w \in Waiters : TimeoutSuccess(w)

\* time passing and Close, with no control stream and no fallback
NoFallbackEnv ==
    \/ AnnounceDue
    \/ PollDue
    \/ DegradedCheckDue
    \/ Close

\* an engine constructed from a configuration without announcer
NoFallbackInit == Init /\ ~SupportsFallback

\* scenario S5: a driver without fallback, no control stream ever, and the
\* callers of ForceSend. The worker goroutine runs whenever it is not blocked
\* in its select, the select receives from a channel that stays or keeps
\* coming ready, a ForceSend call's timeout fires in the end and the call's
\* own selects run
FairNoFallbackSpec ==
    /\ NoFallbackInit
    /\ [][NoSenderLoop \/ NoFallbackEnv \/ CallersTimingOut]_vars
    /\ WF_vars(Start \/ Run)
    /\ SF_vars(SelectAnnounce)
    /\ SF_vars(SelectPoll)
    /\ SF_vars(SelectDegradedCheck)
    /\ \A w \in Waiters : SF_vars(SelectTestAnnounce(w))
    /\ \A w \in Waiters : WF_vars(TimeoutFires(w))
    /\ \A w \in Waiters : WF_vars(TimeoutTrigger(w))
    /\ \A w \in Waiters : WF_vars(TimeoutSuccess(w))

\* a ForceSend call has returned a timeout error
TimedOut(w) ==
    fsPc[w] \in {"timeout waiting to trigger announce",
                 "timeout waiting for announce success"}

\* C23: with a driver that has no fallback and no sender ever, the receipt of
\* a force-send waiter sets the latch and parks the waiter, every preamble
\* run with the latch set emits the no-fallback event and nothing else, no
\* step calls Announce or FallbackAnnounce, the latch once set stays set, no
\* waiter is closed, and every ForceSend call returns, with a timeout error.
NoFallbackForceSendTimesOut ==
    /\ [][/\ (WorkerStep /\ Received(log') = "testAnnounce")
               => /\ shouldAnnounce'
                  /\ \E w \in Waiters : announceWaiters' = Append(announceWaiters, w)
          /\ (WorkerStep /\ pc = "run" /\ shouldAnnounce)
               => log' = <<E("event", "no-fallback")>>
          /\ ~Has(log', E("call", "Announce"))
          /\ ~Has(log', E("call", "FallbackAnnounce"))
          /\ shouldAnnounce => shouldAnnounce'
          /\ closed' = {}]_vars
    /\ \A w \in Waiters : [](Returned(w) => TimedOut(w))
    /\ \A w \in Waiters : (fsPc[w] \in {"sending", "waiting"}) ~> TimedOut(w)

\* C23 witness: a ForceSend call has timed out waiting for the announce, its
\* waiter parked still and the latch set, after a preamble that emitted
\* no-fallback
ForceSendTimedOutWithoutFallback ==
    /\ ~SupportsFallback
    /\ \E w \in Waiters :
         /\ fsPc[w] = "timeout waiting for announce success"
         /\ w \in Range(announceWaiters)
    /\ shouldAnnounce
    /\ pc = "select"
    /\ log = <<E("event", "no-fallback")>>

\* ------------------------------------------------------------ construction

\* C25: NewSSHServerHeartbeat returns an error and no engine when the
\* configuration has no InventoryHandle or no GetServer, the error naming the
\* first of the two that is missing; with both set it returns an engine and
\* no error, whatever the optional fields are.
ConstructionChecksConfig ==
    [][(pc = "config" /\ pc' # pc)
         => IF ~cfg.InventoryHandle \/ ~cfg.GetServer
            THEN /\ pc' = "no engine"
                 /\ \E e \in {"missing required parameter InventoryHandle for ssh heartbeat",
                              "missing required parameter GetServer for ssh heartbeat"} :
                      log' = <<E("error", e)>>
            ELSE /\ pc' = "new"
                 /\ log' = <<>>]_vars

\* C25 witness: construction has failed for a configuration that has an
\* InventoryHandle but no GetServer
NoEngineWithoutGetServer ==
    /\ pc = "no engine"
    /\ cfg.InventoryHandle
    /\ ~cfg.GetServer
    /\ log = <<E("error", "missing required parameter GetServer for ssh heartbeat")>>

\* ------------------------------------------------------------ failed sends

\* C26: a step in which FallbackAnnounce fails sets fallbackBackoffTime to a
\* deadline ahead of now, invokes onHeartbeat once, with fallbackFailed,
\* leaves the latch set and the waiters parked and open, and resets no
\* interval.
FailedFallbackEffects ==
    [][(pc = "run" /\ SendFails)
         => /\ fallbackBackoffTime' = BackoffDeadline
            /\ ~NowAfter(fallbackBackoffTime')
            /\ Callbacks(log') = <<"fallbackFailed">>
            /\ shouldAnnounce /\ shouldAnnounce'
            /\ UNCHANGED <<announceWaiters, closed, announce, poll, degradedCheck>>
            /\ \A i \in DOMAIN log' : log'[i][1] # "reset"]_vars

\* C26 witness: FallbackAnnounce has failed with a waiter parked and an
\* announce tick pending: the waiter is parked still, the tick pending still,
\* the backoff deadline ahead
FallbackFailedWithWaiter ==
    /\ pc = "select"
    /\ DidSend(log, "FallbackAnnounce", "fallback-err")
    /\ announceWaiters # <<>>
    /\ announce = "ready"
    /\ fallbackBackoffTime = "ahead"
    /\ shouldAnnounce

\* C27: a step in which Announce fails invokes onHeartbeat once, with
\* announceFailed, and leaves the latch set, the waiters parked and open, and
\* fallbackBackoffTime and the intervals as they are; the preamble of the
\* with-sender loop calls Announce whenever the latch is set, so also in the
\* iteration after a failure, whatever fallbackBackoffTime is.
FailedAnnounceEffects ==
    [][/\ (pc = "runWithSender" /\ SendFails)
            => /\ Callbacks(log') = <<"announceFailed">>
               /\ shouldAnnounce /\ shouldAnnounce'
               /\ pc' = "selectWithSender"
               /\ UNCHANGED <<announceWaiters, closed, fallbackBackoffTime,
                              announce, poll, degradedCheck>>
               /\ \A i \in DOMAIN log' : log'[i][1] \notin {"reset", "set"}
       /\ (WorkerStep /\ pc = "runWithSender" /\ shouldAnnounce)
            => Has(log', E("call", "Announce"))
       /\ (WorkerStep /\ pc = "selectWithSender" /\ pc' = "runWithSender")
            => (shouldAnnounce => shouldAnnounce')]_vars

\* C27 witness: the preamble is about to run again in the with-sender loop
\* after an Announce that failed (nothing has been announced yet, and a poll
\* tick was handled since), the latch set still and a waiter parked still
AnnounceRetryPending ==
    /\ pc = "runWithSender"
    /\ Received(log) = "poll.Next"
    /\ prev = NoServer
    /\ shouldAnnounce
    /\ announceWaiters # <<>>
    /\ closed = {}
    /\ sender = "live"

\* ------------------------------------------------------------ the with-sender loop

\* the step is the handling of a degraded-check tick in the with-sender loop
WithSenderDegradedCheckTick ==
    WorkerStep /\ pc = "selectWithSender" /\ Received(log') = "degradedCheck.Next"

\* C28: the handling of a degraded-check tick in the with-sender loop invokes
\* onHeartbeat, once and with nil, exactly when the latch is clear and Poll
\* reports no change, and invokes no callback otherwise: none with an error,
\* and none at all while the latch is set; it leaves the latch as it is.
WithSenderDegradedCheckClears ==
    [][WithSenderDegradedCheckTick
         => /\ Callbacks(log') = (IF ~shouldAnnounce /\ ~PollReports
                                  THEN <<"nil">> ELSE <<>>)
            /\ shouldAnnounce => ~Has(log', E("event", "on-heartbeat-ok"))
            /\ ~Has(log', E("event", "on-heartbeat-err"))
            /\ shouldAnnounce' = shouldAnnounce]_vars

\* C28 witness: a degraded-check tick has been handled in the with-sender
\* loop after an Announce that failed (nothing has been announced yet): the
\* latch is set and no callback was invoked
DegradedCheckSilentWhilePending ==
    /\ pc = "runWithSender"
    /\ Received(log) = "degradedCheck.Next"
    /\ Callbacks(log) = <<>>
    /\ shouldAnnounce
    /\ prev = NoServer
    /\ sender = "live"

\* C29: the preamble of the with-sender loop calls Announce in every
\* iteration in which the latch is set, whether fallbackBackoffTime is ahead
\* or past, emits no backoff event and leaves fallbackBackoffTime as it is;
\* and the select of the no-sender loop can receive a sender whenever the
\* handle has one, during a backoff too.
BackoffGatesOnlyFallback ==
    /\ [][(WorkerStep /\ pc = "runWithSender")
            => /\ shouldAnnounce <=> Has(log', E("call", "Announce"))
               /\ ~Has(log', E("event", "hb-fallback-backoff"))
               /\ fallbackBackoffTime' = fallbackBackoffTime]_vars
    /\ [](pc = "select" /\ handle => ENABLED SelectSender)

\* C29 witness: Announce has succeeded over a sender received during a
\* fallback backoff, the deadline ahead still
AnnouncedDuringBackoff ==
    /\ pc = "selectWithSender"
    /\ DidSend(log, "Announce", "announce-ok")
    /\ fallbackBackoffTime = "ahead"
    /\ ~NowAfter(fallbackBackoffTime)
    /\ sender = "live"

\* C30: the receipt of a force-send waiter, in either loop, sets the latch
\* and appends the waiter to announceWaiters and does nothing else:
\* fallbackBackoffTime, prev, the intervals and the closed waiters are as
\* they were; and the preamble of the no-sender loop that follows such a
\* receipt calls FallbackAnnounce only if the backoff deadline has passed.
ForceSendOnlySetsLatch ==
    [][/\ (WorkerStep /\ Received(log') = "testAnnounce")
            => /\ pc \in {"select", "selectWithSender"}
               /\ shouldAnnounce'
               /\ \E w \in Waiters : announceWaiters' = Append(announceWaiters, w)
               /\ log' = <<E("recv", "testAnnounce"), E("set", "shouldAnnounce=true"),
                           E("append", "announceWaiters")>>
               /\ UNCHANGED <<fallbackBackoffTime, prev, announce, poll,
                              degradedCheck, closed>>
       /\ (WorkerStep /\ pc = "run" /\ Received(log) = "testAnnounce"
             /\ ~NowAfter(fallbackBackoffTime))
            => /\ ~Has(log', E("call", "FallbackAnnounce"))
               /\ SupportsFallback => log' = <<E("event", "hb-fallback-backoff")>>]_vars

\* C30 witness: a force-send waiter has just been received in the no-sender
\* loop during a fallback backoff: the waiter is parked, the latch set, the
\* deadline ahead still and the pending ticks pending still
ForceSendDuringBackoff ==
    /\ pc = "run"
    /\ Received(log) = "testAnnounce"
    /\ fallbackBackoffTime = "ahead"
    /\ shouldAnnounce
    /\ announceWaiters # <<>>
    /\ announce = "ready" /\ poll = "ready" /\ degradedCheck = "ready"

\* ------------------------------------------------------------ the two loops

\* the worker is in the no-sender loop
InNoSender == pc \in {"run", "select"}

\* the worker is in the with-sender loop
InWithSender == pc \in {"runWithSender", "selectWithSender"}

\* C31: a running worker is in the no-sender loop, holding no sender, or in
\* the with-sender loop, holding the sender it received on entry; it enters
\* the with-sender loop only by receiving a sender from the handle and
\* leaves it only by receiving that sender's Done or closeContext.Done,
\* giving up the sender; Announce is called only by the preamble of the
\* with-sender loop and FallbackAnnounce only by the preamble of the
\* no-sender loop, with no sender held.
TwoLoops ==
    /\ [](/\ InNoSender \/ pc \in {"new", "returned"} => sender = "none"
          /\ InWithSender => sender \in {"live", "done"})
    /\ [][/\ (~InWithSender /\ InWithSender')
               => /\ pc = "select"
                  /\ Received(log') = "handle.Sender"
                  /\ handle
                  /\ sender' = "live"
          /\ (InWithSender /\ ~InWithSender')
               => /\ pc = "selectWithSender" /\ pc' = "run"
                  /\ \/ Received(log') = "sender.Done" /\ sender = "done"
                     \/ Received(log') = "closeContext.Done" /\ cancelled
                  /\ sender' = "none"
          /\ (InWithSender /\ InWithSender') => sender' \in {sender, "done"}
          /\ Has(log', E("call", "Announce")) /\ WorkerStep
               => pc = "runWithSender" /\ sender # "none"
          /\ Has(log', E("call", "FallbackAnnounce")) /\ WorkerStep
               => pc = "run" /\ sender = "none"]_vars

\* C31 witness: the worker is back in the no-sender loop on the Done of the
\* sender it had announced over (the driver has no fallback, so that prev
\* was set by Announce), and holds no sender
BackInNoSenderOnDone ==
    /\ pc = "run"
    /\ Received(log) = "sender.Done"
    /\ sender = "none"
    /\ prev # NoServer
    /\ ~SupportsFallback

\* ------------------------------------------------------------ the snapshots

\* the engine and its driver with a service whose spec changes, also while
\* Announce is running, and that has no cloud metadata, ForceSend never
\* called
ConcurrentSpecSpec ==
    Init /\ [][\/ Engine
               \/ Env
               \/ FetchFails
               \/ \E s \in Specs : SpecChanges(s)
               \/ \E s \in Specs : RunWithSenderSpecChanges(s)]_vars

\* the payload of the heartbeat message sent by a step that calls Announce:
\* what the second getServer call of Announce returned, cfg.GetServer() as it
\* is when the call ends with the cached metadata set
SentServer == [spec |-> server', meta |-> metadataPtr']

\* C32 as claimed: when Announce returns ok, prev is the snapshot that was
\* placed in the message sent over the sender, also when the spec changes
\* during the call.
PrevIsSentSnapshot ==
    [][(WorkerStep /\ pc = "runWithSender"
          /\ DidSend(log', "Announce", "announce-ok"))
         => prev' = SentServer]_vars

\* what a fetch goroutine can end with: nothing (0), or one of at least two
\* values, so that a fetch can end with another value than the cached one
Fetched == 0 .. NumMeta + 1

\* the metadata fetches, ending with any of these
Fetches == \E got \in Fetched, holdsPrev \in BOOLEAN : FetchEnds(got, holdsPrev)

\* the engine and its driver with the metadata fetch goroutines, for a
\* service whose spec stays as it is, ForceSend never called
FetchSpec == Init /\ [][Engine \/ Env \/ Fetches]_vars

\* C33: metadataPtr goes from nil to a value only by the end of a fetch, and
\* once it holds a value no step changes it, whatever later fetches end
\* with; a send that succeeds once a value is cached records as prev a
\* snapshot stamped with that value by getServer, held by no fetch.
MetadataPublishedOnce ==
    [][/\ metadataPtr # 0 => metadataPtr' = metadataPtr
       /\ metadataPtr' # metadataPtr => ~WorkerStep /\ metadataPtr' \in Fetched
       /\ (metadataPtr # 0 /\ SendSucceeds)
            => /\ prev' = [spec |-> server, meta |-> metadataPtr]
               /\ ~fetchPrev']_vars

\* C33 witness: an announce has succeeded with metadata cached, and prev is
\* the snapshot getServer stamped with it (no fetch holds that snapshot)
StampedSnapshotAnnounced ==
    /\ pc = "selectWithSender"
    /\ DidSend(log, "Announce", "announce-ok")
    /\ metadataPtr # 0
    /\ prev = [spec |-> server, meta |-> metadataPtr]
    /\ ~fetchPrev
    /\ fetchOther # "none"

\* C34 as claimed: at most one fetch goroutine is in flight at any time.
OneFetchInFlight ==
    \/ ~fetchPrev /\ fetchOther \in {"none", "one"}
    \/ fetchPrev /\ fetchOther = "none"

\* C38 as claimed: a snapshot that getServer has returned and that is stored
\* as prev is changed by no step but the worker's own: the end of a fetch
\* goroutine leaves it as it is.
ReturnedSnapshotUnchanged ==
    [][(prev # NoServer /\ ~WorkerStep) => prev' = prev]_vars

\* ------------------------------------------------------------ waiters and latch

SenderLost == WorkerStep /\ pc = "selectWithSender" /\ pc' = "run"

\* C37: the return of the with-sender loop to the no-sender loop leaves the
\* latch, announceWaiters, fallbackBackoffTime and prev as they are; the
\* receipt of a sender sets the latch if the entry poll reports a change
\* and leaves it as it is otherwise, and leaves announceWaiters,
\* fallbackBackoffTime and prev as they are.
LoopChangeKeepsState ==
    [][/\ SenderLost
            => UNCHANGED <<shouldAnnounce, announceWaiters, closed,
                           fallbackBackoffTime, prev>>
       /\ SenderReceived
            => /\ shouldAnnounce' = (shouldAnnounce \/ PollReports)
               /\ shouldAnnounce => shouldAnnounce'
               /\ UNCHANGED <<announceWaiters, closed, fallbackBackoffTime, prev>>]_vars

\* C37 witness: the worker is back in the no-sender loop on the sender's Done
\* with the latch set, a waiter parked and the fallback deadline ahead
SenderLostWithStateKept ==
    /\ pc = "run"
    /\ Received(log) = "sender.Done"
    /\ shouldAnnounce
    /\ announceWaiters # <<>>
    /\ fallbackBackoffTime = "ahead"
    /\ prev # NoServer

\* C39: whenever a waiter is parked the latch is set.
WaitersImplyLatch == announceWaiters # <<>> => shouldAnnounce

\* C39 witness: a send has failed with a waiter parked: the waiter is parked
\* still and the latch set still
WaiterParkedAfterFailure ==
    /\ announceWaiters # <<>>
    /\ shouldAnnounce
    /\ DidSend(log, "Announce", "announce-err")
    /\ pc = "selectWithSender"
    /\ closed = {}

\* ------------------------------------------------------------ the sender's Done

\* C40 as claimed: the worker calls Announce only with a sender whose Done
\* has not fired.
AnnounceOnlyOnLiveSender ==
    [][(WorkerStep /\ Has(log', E("call", "Announce"))) => sender = "live"]_vars

\* ------------------------------------------------------------ a steady sender

\* a preamble of the no-sender loop whose send, if it makes one, succeeds
RunSucceeds == Run /\ ~SendFails

\* a preamble of the with-sender loop whose send, if it makes one, succeeds
RunWithSenderSucceeds == RunWithSender /\ ~SendFails

\* the worker with a control stream that connects and stays, for a service
\* whose spec stays as it is: no send fails, no sender is lost, nothing is
\* cancelled
SteadyLoop ==
    \/ Start
    \/ RunSucceeds
    \/ SelectSender
    \/ SelectAnnounce
    \/ SelectPoll
    \/ SelectDegradedCheck
    \/ RunWithSenderSucceeds
    \/ WithSenderAnnounce
    \/ WithSenderPoll
    \/ WithSenderDegradedCheck

\* time passing, and the control stream connecting
SteadyEnv ==
    \/ AnnounceDue
    \/ PollDue
    \/ DegradedCheckDue
    \/ Connect

\* the worker goroutine runs whenever it is not blocked in its select, the
\* control stream connects and the select receives its sender, the announce
\* interval comes due and the select of the with-sender loop receives its tick
SteadySenderSpec ==
    /\ Init /\ [][SteadyLoop \/ SteadyEnv]_vars
    /\ WF_vars(Start \/ RunSucceeds \/ RunWithSenderSucceeds)
    /\ WF_vars(Connect)
    /\ SF_vars(SelectSender)
    /\ WF_vars(AnnounceDue)
    /\ SF_vars(WithSenderAnnounce)

\* the step is a preamble of the with-sender loop in which Announce returned ok
AnnounceSucceeds ==
    /\ pc = "runWithSender"
    /\ pc' = "selectWithSender"
    /\ DidSend(log', "Announce", "announce-ok")

\* C36: with a steady sender, every send succeeding and the spec staying as
\* it is, steps in which Announce returns ok keep happening for ever, and so
\* do receipts of the announce tick in the with-sender loop: the periodic
\* tick alone keeps the server announced.
PeriodicRefresh ==
    /\ []<><<AnnounceSucceeds>>_vars
    /\ []<><<WithSenderAnnounce>>_vars

\* C36 witness: the announce tick was received in the with-sender loop with
\* the latch clear and the driver's snapshot equal to the server's, and it
\* has set the latch for the next preamble
RefreshDueUnchanged ==
    /\ pc = "runWithSender"
    /\ Received(log) = "announce.Next"
    /\ shouldAnnounce
    /\ since = {"announce tick"}
    /\ sender = "live"
    /\ prev = GetServer

====
